---- MODULE Spec2Model ----
(***************************************************************************)
(* Model of the alerting core of linux-server-admin-bot:                   *)
(*   bot/services/alert_manager.py  (AlertManager)                         *)
(*   bot/models/metrics.py          (Alert)                                *)
(*   bot/monitors/health_monitor.py (HealthMonitor)                        *)
(*   main.py                        (BotApplication)                       *)
(*   config/settings.py             (Settings)                             *)
(* Percentages are held in tenths of a percent (80.0 % is 800), the        *)
(* resolution psutil reports; times are whole seconds of datetime.now().   *)
(***************************************************************************)
EXTENDS Integers, Sequences, FiniteSets, TLC

\* ---------------------------------------------------------------- bounds
\* Spec: last second of the modelled clock, and Alert objects created in a run
MaxTime == 3
MaxAlerts == 1
\* SpecPair: a second alert, for what holds between two emissions
MaxPairAlerts == 2
\* SpecList: longer lists in a shorter time
MaxListTime == 1
MaxListAlerts == 3
\* SpecCopy: Alert objects created, and the length a caller grows a returned list to
MaxCopyAlerts == 2
MaxCopyLen == 2
\* SpecMonitor: last second of the clock, and Alert objects created in a run
MaxMonitorTime == 0
MaxMonitorAlerts == 3
\* AsyncIOScheduler objects created in a run
MaxSchedulers == 1
\* SpecLife: AsyncIOScheduler objects created in a run (a start after a stop)
MaxLifeSchedulers == 2
\* settings.rate_limit_calls and settings.rate_limit_period (configuration values)
rate_limit_calls == 2
rate_limit_period == 2
\* SpecLimiter: last second of the clock
MaxLimiterTime == 4
\* SpecScenario: Alert objects created in a run
MaxScenarioAlerts == 3
\* SpecDelivery: last second of the clock, and Alert objects created in a run
MaxDeliveryTime == 2
MaxDeliveryAlerts == 4
\* the cooldown the manager is constructed with (a configuration value)
cooldown_seconds == 2

\* ------------------------------------------------------------- constants
\* config/constants.py AlertType
CPU == "cpu"
MEMORY == "memory"
DISK == "disk"
DOCKER == "docker"
CUSTOM == "custom"
AlertType == {CPU, MEMORY, DISK, DOCKER, CUSTOM}

\* Python's None as an Optional[AlertType] argument
None == "None"

\* AlertManager.__init__ defaults, in tenths of a percent
cpu_threshold == 800
memory_threshold == 800
disk_threshold == 900
\* the literal 95 of the severity test, in tenths of a percent
CriticalLevel == 950

\* the kinds that have a threshold check
CheckedTypes == {CPU, MEMORY, DISK}

Threshold(alert_type) ==
    CASE alert_type = CPU -> cpu_threshold
      [] alert_type = MEMORY -> memory_threshold
      [] alert_type = DISK -> disk_threshold

\* metrics.percent values a sample may carry: at and above each threshold
\* (80.0 is also below the disk threshold), and both sides of 95
Percents == {800, 900, 950, 951}
\* SpecPair: values every kind alerts on, a warning and a critical one
PairPercents == {950, 951}
\* SpecList: one value no kind alerts on, one every kind alerts on
ListPercents == {800, 951}

\* arguments of create_custom_alert
Titles == {"Test"}
Messages == {"Test message"}
Severities == {"info"}
CustomTypes == {CUSTOM, CPU}

\* Telegram chat ids; settings.allowed_user_ids holds the first
ChatIds == {1, 2}
allowed_user_ids == {1}
\* Telegram user ids (a private chat's id is its user's id); NoUser stands
\* for update.effective_user being None
UserIds == ChatIds
NoUser == 0
\* the containers of the engine, and the names a request may give
Containers == {"web"}
ContainerNames == Containers \cup {"ghost"}
DockerActions == {"restart", "stop", "start"}
\* the commands modelled: status_command and the docker_* commands catch
\* their own exceptions, start_command does not
Commands == {"status", "start", "docker_restart", "docker_stop", "docker_start"}
\* the characters error_handler and handle_callback keep of str(e)
MaxErrorText == 200
\* lengths of str(e) of an exception a handler body raises
ErrorLengths == {MaxErrorText, MaxErrorText + 1}
\* SpecMonitor: samples no kind alerts on and samples every kind alerts on
MonitorPercents == {800, 951}
\* SpecLife: samples every kind alerts on
LifePercents == {951}

VARIABLES
    now,              \* the value datetime.now() returns, in seconds
    alerts,           \* every Alert object created so far; an index is the object's identity
    last_alert_time,  \* AlertManager._last_alert_time
    active_alerts,    \* AlertManager._active_alerts, a list of references into alerts
    call,             \* the AlertManager method called last, with its arguments
    ret,              \* what that call returned: <<>> for None, <<ref>> for an Alert
    returned,         \* the list get_active_alerts handed out that its caller
                      \* still holds: <<>> for none, <<list object>> otherwise
    chat_ids,         \* HealthMonitor._alert_chat_ids
    schedulers,       \* every AsyncIOScheduler object created so far
    scheduler,        \* HealthMonitor.scheduler: 0 for None, else an index of schedulers
    tick,             \* the check_system_health coroutine in flight, and how
                      \* the last one ended
    sends,            \* the bot.send_message calls of the latest tick:
                      \* <<alert, chat_id, outcome>>
    app,              \* how many steps of BotApplication.stop have run
    transport,        \* the chat transport of the telegram Application
    cmd,              \* the command handler that is inside clear_alerts
    settings,         \* config.settings: <<>> until loaded, then <<the values>>
    process,          \* how far the process start has come
    rate_limit_storage, \* decorators._rate_limit_storage: user id -> timestamps
    admissions,       \* for each user id, the times at which the rate limiter
                      \* let a request of that user through
    engine,           \* the container engine: each container's status, and
                      \* the actions carried out on containers
    confirmations,    \* the confirm_<action>_<container> callbacks received
                      \* from allowed users
    handled           \* the update handled last, and what came of it

manager_vars == <<now, alerts, last_alert_time, active_alerts, call, ret, returned>>

monitor_vars == <<chat_ids, schedulers, scheduler, tick, sends>>

life_vars == <<app, transport>>

config_vars == <<settings, process>>

handler_vars == <<rate_limit_storage, admissions, engine, confirmations, handled>>

vars == <<now, alerts, last_alert_time, active_alerts, call, ret, returned,
          chat_ids, schedulers, scheduler, tick, sends,
          app, transport, cmd, settings, process,
          rate_limit_storage, admissions, engine, confirmations, handled>>

\* ------------------------------------------------------------ Alert
\* the dataclass Alert; timestamp and acknowledged are its defaulted fields
Alert(alert_type, title, message, severity, metric_value, threshold, timestamp) ==
    [alert_type |-> alert_type, title |-> title, message |-> message,
     severity |-> severity, metric_value |-> metric_value,
     threshold |-> threshold, timestamp |-> timestamp, acknowledged |-> FALSE]

\* the generated Alert.__eq__: all fields equal (identity is not a field)
AlertEq(a, b) == a = b

\* ------------------------------------------------------- list helpers
MatchesIgnoringFlag(heap, elem, ref) ==
    elem = ref \/ [heap[elem] EXCEPT !.acknowledged = TRUE]
                   = [heap[ref] EXCEPT !.acknowledged = TRUE]

\* the test list.__contains__ and list.remove apply to an element: identity or ==
Matches(heap, elem, ref) == elem = ref \/ AlertEq(heap[elem], heap[ref])

\* alert in self._active_alerts
Contains(heap, list, ref) == \E i \in 1..Len(list) : Matches(heap, list[i], ref)

\* the index list.remove deletes: the first matching element
FirstMatch(heap, list, ref) ==
    CHOOSE i \in 1..Len(list) :
        /\ Matches(heap, list[i], ref)
        /\ \A j \in 1..(i - 1) : ~Matches(heap, list[j], ref)

\* the list without its i-th element
RemoveAt(list, i) == SubSeq(list, 1, i - 1) \o SubSeq(list, i + 1, Len(list))

RECURSIVE FilterSeqFirstOnly(_, _, _)
FilterSeqFirstOnly(heap, list, keptTypes) ==
    IF list = <<>> THEN <<>>
    ELSE IF heap[Head(list)].alert_type \in keptTypes
         THEN <<Head(list)>> \o FilterSeqFirstOnly(heap, Tail(list), keptTypes)
         ELSE Tail(list)

RECURSIVE FilterSeq(_, _, _)
\* [a for a in list if keep(a)], keep given as the set of kept kinds
FilterSeq(heap, list, keptTypes) ==
    IF list = <<>> THEN <<>>
    ELSE LET rest == FilterSeq(heap, Tail(list), keptTypes)
         IN IF heap[Head(list)].alert_type \in keptTypes
            THEN <<Head(list)>> \o rest
            ELSE rest

\* ------------------------------------------------------- list objects
\* A list object a caller holds: its items, and whether it is the very
\* object self._active_alerts is bound to.
ListNoCopy(list) == [items |-> list, same_object |-> TRUE]

\* self._active_alerts.copy(): a new list object with the same items
ListCopy(list) == [items |-> list, same_object |-> FALSE]

\* the held list after self._active_alerts was changed in place (append,
\* remove) to list: the same object shows the change, a copy does not
AfterInPlace(held, list) ==
    IF held # <<>> /\ held[1].same_object
    THEN <<[held[1] EXCEPT !.items = list]>>
    ELSE held

\* the held list after self._active_alerts was bound to a new list object:
\* it keeps its items and is no longer the manager's list
AfterRebind(held) ==
    IF held # <<>> THEN <<[held[1] EXCEPT !.same_object = FALSE]>> ELSE held

\* ------------------------------------------------ AlertManager helpers
ExceedsOrEqual(percent, threshold) == percent >= threshold

\* metrics.percent > self.<kind>_threshold
Exceeds(percent, threshold) == percent > threshold

SeverityInclusive(percent) == IF percent >= CriticalLevel THEN "critical" ELSE "warning"

\* "critical" if metrics.percent > 95 else "warning"
Severity(percent) == IF percent > CriticalLevel THEN "critical" ELSE "warning"

HighUsageTitle(alert_type) ==
    CASE alert_type = CPU -> "High CPU Usage"
      [] alert_type = MEMORY -> "High Memory Usage"
      [] alert_type = DISK -> "High Disk Usage"

\* the f-string message: the kind's text with the percentage formatted .1f,
\* which keeps every tenth (the GB figures and mount point it also prints
\* come from the same sample and are not modelled)
HighUsageMessage(alert_type, percent) == <<alert_type, "usage is at", percent>>

ThresholdAlertSwapped(alert_type, percent, timestamp) ==
    Alert(alert_type, HighUsageTitle(alert_type), HighUsageMessage(alert_type, percent),
          Severity(percent), Threshold(alert_type), percent, timestamp)

\* the Alert a check builds
ThresholdAlert(alert_type, percent, timestamp) ==
    Alert(alert_type, HighUsageTitle(alert_type), HighUsageMessage(alert_type, percent),
          Severity(percent), percent, Threshold(alert_type), timestamp)

CanSendAlertAlways(times, alert_type, t) == TRUE

CanSendAlertStrict(times, alert_type, t) ==
    alert_type \notin DOMAIN times \/ t - times[alert_type] > cooldown_seconds

CanSendAlertShared(times, alert_type, t) ==
    \A k \in DOMAIN times : t - times[k] >= cooldown_seconds

\* _can_send_alert: times.get(alert_type) is None, or the time since it
\* (t is the clock read) has reached the cooldown
CanSendAlert(times, alert_type, t) ==
    alert_type \notin DOMAIN times \/ t - times[alert_type] >= cooldown_seconds

\* self._last_alert_time[alert_type] = t
SetItem(times, alert_type, t) ==
    [k \in DOMAIN times \cup {alert_type} |-> IF k = alert_type THEN t ELSE times[k]]

\* ------------------------------------------------------------- Init
Init ==
    /\ now = 0
    /\ alerts = <<>>
    /\ last_alert_time = <<>>
    /\ active_alerts = <<>>
    /\ call = [op |-> "__init__"]
    /\ ret = <<>>
    /\ returned = <<>>
    /\ chat_ids = {}
    /\ schedulers = <<>>
    /\ scheduler = 0
    /\ tick = [pc |-> "idle", sampled |-> <<>>, alerts |-> <<>>, idx |-> 1,
               iter_size |-> 0, pos |-> 0, at_start |-> <<>>, set_changed |-> FALSE,
               error |-> "none"]
    /\ sends = {}
    /\ app = 0
    /\ transport = "open"
    /\ cmd = [pc |-> "idle"]
    /\ settings = <<>>
    /\ process = "not started"
    /\ rate_limit_storage = [user_id \in UserIds |-> <<>>]
    /\ admissions = [user_id \in UserIds |-> <<>>]
    /\ engine = [status |-> [name \in Containers |-> "running"], calls |-> {}]
    /\ confirmations = {}
    /\ handled = [kind |-> "none", user |-> NoUser, data |-> <<>>,
                  net |-> "up", failed |-> FALSE, reply |-> "none",
                  error_len |-> 0, raised |-> FALSE, body |-> FALSE]

\* ---------------------------------------------------------- actions
\* _trigger_alert: stamps the kind, appends the alert (no callback is ever
\* registered in the repository, so the callback loop has nothing to call)
TriggerAlert(alert, t) ==
    /\ last_alert_time' = SetItem(last_alert_time, alert.alert_type, t)
    /\ alerts' = Append(alerts, alert)
    /\ active_alerts' = Append(active_alerts, Len(alerts) + 1)
    /\ returned' = AfterInPlace(returned, active_alerts')

\* check_cpu_alert / check_memory_alert / check_disk_alert: the three
\* methods differ in the kind, the threshold and the texts only.  The clock
\* is read in _can_send_alert (now), for the Alert's timestamp (d1 later)
\* and in _trigger_alert (d2 later); the call lasts far less than a second,
\* so at most one second boundary falls between its reads.
CheckAlert(alert_type, percent, heapBound, clockBound) ==
    /\ call' = [op |-> "check_alert", alert_type |-> alert_type, percent |-> percent]
    /\ IF Exceeds(percent, Threshold(alert_type))
          /\ CanSendAlert(last_alert_time, alert_type, now)
       THEN /\ Len(alerts) < heapBound
            /\ \E d1 \in 0..1, d2 \in 0..1 :
                  /\ d1 + d2 <= 1
                  /\ now + d1 + d2 <= clockBound
                  /\ TriggerAlert(ThresholdAlert(alert_type, percent, now + d1),
                                  now + d1 + d2)
                  /\ now' = now + d1 + d2
            /\ ret' = <<Len(alerts) + 1>>
       ELSE /\ ret' = <<>>
            /\ UNCHANGED <<now, alerts, last_alert_time, active_alerts, returned>>

check_cpu_alert(heapBound, clockBound, percents) ==
    \E percent \in percents : CheckAlert(CPU, percent, heapBound, clockBound)

check_memory_alert(heapBound, clockBound, percents) ==
    \E percent \in percents : CheckAlert(MEMORY, percent, heapBound, clockBound)

check_disk_alert(heapBound, clockBound, percents) ==
    \E percent \in percents : CheckAlert(DISK, percent, heapBound, clockBound)

CreateCustomAlertCooled(title, message, severity, alert_type, heapBound, clockBound) ==
    /\ call' = [op |-> "create_custom_alert", alert_type |-> alert_type,
                title |-> title, message |-> message, severity |-> severity]
    /\ IF CanSendAlert(last_alert_time, alert_type, now)
       THEN /\ Len(alerts) < heapBound
            /\ TriggerAlert(Alert(alert_type, title, message, severity, 0, 0, now), now)
            /\ ret' = <<Len(alerts) + 1>>
            /\ UNCHANGED now
       ELSE /\ ret' = <<>>
            /\ UNCHANGED <<now, alerts, last_alert_time, active_alerts, returned>>

\* create_custom_alert: builds the alert and triggers it, no cooldown test
CreateCustomAlert(title, message, severity, alert_type, heapBound, clockBound) ==
    /\ Len(alerts) < heapBound
    /\ call' = [op |-> "create_custom_alert", alert_type |-> alert_type,
                title |-> title, message |-> message, severity |-> severity]
    /\ \E d2 \in 0..1 :
          /\ now + d2 <= clockBound
          /\ TriggerAlert(Alert(alert_type, title, message, severity, 0, 0, now),
                          now + d2)
          /\ now' = now + d2
    /\ ret' = <<Len(alerts) + 1>>

create_custom_alert(heapBound, clockBound) ==
    \E title \in Titles, message \in Messages, severity \in Severities,
       alert_type \in CustomTypes :
        CreateCustomAlert(title, message, severity, alert_type, heapBound, clockBound)

HeapAtSearchFlagLater(objects, ref) == objects

\* the Alert objects as `alert in self._active_alerts` and list.remove
\* compare them: alert.acknowledged = True has already run
HeapAtSearch(objects, ref) == [objects EXCEPT ![ref].acknowledged = TRUE]

AcknowledgeAlertKeeping(ref) ==
    /\ call' = [op |-> "acknowledge_alert", alert |-> ref]
    /\ alerts' = [alerts EXCEPT ![ref].acknowledged = TRUE]
    /\ ret' = <<>>
    /\ UNCHANGED <<now, last_alert_time, active_alerts, returned>>

\* acknowledge_alert: sets the flag, then removes the alert if the list holds it
AcknowledgeAlert(ref) ==
    LET heap == HeapAtSearch(alerts, ref)
    IN /\ call' = [op |-> "acknowledge_alert", alert |-> ref]
       /\ alerts' = [alerts EXCEPT ![ref].acknowledged = TRUE]
       /\ active_alerts' =
             IF Contains(heap, active_alerts, ref)
             THEN RemoveAt(active_alerts, FirstMatch(heap, active_alerts, ref))
             ELSE active_alerts
       /\ returned' = AfterInPlace(returned, active_alerts')
       /\ ret' = <<>>
       /\ UNCHANGED <<now, last_alert_time>>

acknowledge_alert == \E ref \in 1..Len(alerts) : AcknowledgeAlert(ref)

ClearAlertsResetting(alert_type) ==
    /\ call' = [op |-> "clear_alerts", alert_type |-> alert_type]
    /\ active_alerts' =
          IF alert_type # None
          THEN FilterSeq(alerts, active_alerts, AlertType \ {alert_type})
          ELSE <<>>
    /\ last_alert_time' =
          [k \in DOMAIN last_alert_time \ {alert_type} |-> last_alert_time[k]]
    /\ returned' =
          IF alert_type # None
          THEN AfterRebind(returned)
          ELSE AfterInPlace(returned, <<>>)
    /\ ret' = <<>>
    /\ UNCHANGED <<now, alerts>>

\* clear_alerts: a kind binds the name to a new, filtered list; None (falsy)
\* empties the list in place
ClearAlerts(alert_type) ==
    /\ call' = [op |-> "clear_alerts", alert_type |-> alert_type]
    /\ active_alerts' =
          IF alert_type # None
          THEN FilterSeq(alerts, active_alerts, AlertType \ {alert_type})
          ELSE <<>>
    /\ returned' =
          IF alert_type # None
          THEN AfterRebind(returned)
          ELSE AfterInPlace(returned, <<>>)
    /\ ret' = <<>>
    /\ UNCHANGED <<now, alerts, last_alert_time>>

clear_alerts == \E alert_type \in AlertType \cup {None} : ClearAlerts(alert_type)

\* get_alert_summary: a dict with, for each severity that some alert of the
\* list that is not acknowledged carries, the number of such alerts
get_alert_summary(heap, list) ==
    LET counted == {i \in 1..Len(list) : ~heap[list[i]].acknowledged}
    IN [severity \in {heap[list[i]].severity : i \in counted} |->
           Cardinality({i \in counted : heap[list[i]].severity = severity})]

\* the wall clock advances between calls
Tick(clockBound) ==
    /\ now < clockBound
    /\ now' = now + 1
    /\ UNCHANGED <<alerts, last_alert_time, active_alerts, call, ret, returned>>

\* get_active_alerts: hands the caller a copy of the list (the list it
\* returns is kept in returned, not in ret)
get_active_alerts ==
    /\ call' = [op |-> "get_active_alerts"]
    /\ returned' = <<ListCopy(active_alerts)>>
    /\ ret' = <<>>
    /\ UNCHANGED <<now, alerts, last_alert_time, active_alerts>>

\* the caller changes the list it was handed; if that list is the
\* manager's own object the manager's list changes with it
CallerChanges(op, items) ==
    /\ call' = [op |-> op]
    /\ returned' = <<[returned[1] EXCEPT !.items = items]>>
    /\ active_alerts' = IF returned[1].same_object THEN items ELSE active_alerts
    /\ ret' = <<>>
    /\ UNCHANGED <<now, alerts, last_alert_time>>

\* what a caller may do with a list: append, remove, reverse
caller_append ==
    /\ returned # <<>>
    /\ Len(returned[1].items) < MaxCopyLen
    /\ \E ref \in 1..Len(alerts) :
          CallerChanges("list.append", Append(returned[1].items, ref))

caller_remove ==
    /\ returned # <<>>
    /\ \E i \in 1..Len(returned[1].items) :
          /\ \A j \in 1..(i - 1) : returned[1].items[j] # returned[1].items[i]
          /\ CallerChanges("list.remove", RemoveAt(returned[1].items, i))

caller_reverse ==
    /\ returned # <<>>
    /\ CallerChanges("list.reverse",
                     [i \in 1..Len(returned[1].items) |->
                         returned[1].items[Len(returned[1].items) + 1 - i]])

\* any call of the manager's public methods, or the clock moving on
NextWithin(heapBound, clockBound, percents) ==
    /\ \/ check_cpu_alert(heapBound, clockBound, percents)
       \/ check_memory_alert(heapBound, clockBound, percents)
       \/ check_disk_alert(heapBound, clockBound, percents)
       \/ create_custom_alert(heapBound, clockBound)
       \/ acknowledge_alert
       \/ clear_alerts
       \/ Tick(clockBound)
    /\ UNCHANGED monitor_vars
    /\ UNCHANGED <<life_vars, cmd, config_vars, handler_vars>>

Next == NextWithin(MaxAlerts, MaxTime, Percents)

Spec == Init /\ [][Next]_vars

NextPair == NextWithin(MaxPairAlerts, MaxTime, PairPercents)

SpecPair == Init /\ [][NextPair]_vars

NextList == NextWithin(MaxListAlerts, MaxListTime, ListPercents)

SpecList == Init /\ [][NextList]_vars

\* the manager used by a caller that asks for the active list and keeps it
NextCopy ==
    \/ NextWithin(MaxCopyAlerts, MaxListTime, ListPercents)
    \/ get_active_alerts /\ UNCHANGED <<monitor_vars, life_vars, cmd, config_vars, handler_vars>>
    \/ caller_append /\ UNCHANGED <<monitor_vars, life_vars, cmd, config_vars, handler_vars>>
    \/ caller_remove /\ UNCHANGED <<monitor_vars, life_vars, cmd, config_vars, handler_vars>>
    \/ caller_reverse /\ UNCHANGED <<monitor_vars, life_vars, cmd, config_vars, handler_vars>>

SpecCopy == Init /\ [][NextCopy]_vars

\* ------------------------------------------------------ HealthMonitor
AtAwaitAnywhere(pc) == TRUE

\* The program points at which a coroutine is suspended in an await (or not
\* running): only there does the event loop run anything else.
\* check_system_health awaits in bot.send_message only; the AlertManager's
\* methods are plain functions without an await.
AtAwait(pc) == pc \in {"idle", "send"}

\* how check_system_health leaves: normally ("none"), or through its
\* except clause, which logs the exception and returns
Ended(t, error) == [t EXCEPT !.pc = "idle", !.error = error]

\* the least chat id above pos.  A set of small ints keeps each at the table
\* slot of its value, and the set iterator walks the table by slot.
LeastAbove(ids, pos) == CHOOSE c \in ids : c > pos /\ \A d \in ids : d > pos => c <= d

\* `for chat_id in self._alert_chat_ids`: the iterator's next step.  It
\* raises RuntimeError (set changed size during iteration) when the set's
\* size is not the size it had when the loop began; the for statement is
\* outside the try, so the exception reaches check_system_health's except.
\* Otherwise the next send begins, or the loop and _send_alert_to_chats end.
NextChat(t, ids) ==
    IF Cardinality(ids) # t.iter_size
    THEN Ended(t, "RuntimeError")
    ELSE IF \E c \in ids : c > t.pos
         THEN [t EXCEPT !.pc = "send", !.pos = LeastAbove(ids, t.pos)]
         ELSE [t EXCEPT !.pc = "broadcast", !.idx = t.idx + 1]

AfterSendErrorBreak(t, ids) == [t EXCEPT !.pc = "broadcast", !.idx = t.idx + 1]

AfterSendErrorRaise(t, ids) == Ended(t, "Exception")

AfterSendErrorRetry(t, ids) == t

\* except Exception as e: logger.error(...): the loop goes on
AfterSendError(t, ids) == NextChat(t, ids)

\* the send that begins when t is suspended in send_message
Begun(t) ==
    IF t.pc = "send" THEN {<<t.alerts[t.idx], t.pos, "pending">>} ELSE {}

\* t after the chat set went from old to new: set_changed remembers, for
\* the properties, that the set changed while the tick was in progress
NoteChange(t, old, new) ==
    IF t.pc = "send" /\ old # new THEN [t EXCEPT !.set_changed = TRUE] ELSE t

\* register_alert_chat: set.add
register_alert_chat ==
    /\ AtAwait(tick.pc)
    /\ \E chat_id \in ChatIds :
          /\ chat_ids' = chat_ids \cup {chat_id}
          /\ tick' = NoteChange(tick, chat_ids, chat_ids')
    /\ UNCHANGED <<schedulers, scheduler, sends>>
    /\ UNCHANGED manager_vars

\* unregister_alert_chat: set.discard
unregister_alert_chat ==
    /\ AtAwait(tick.pc)
    /\ \E chat_id \in ChatIds :
          /\ chat_ids' = chat_ids \ {chat_id}
          /\ tick' = NoteChange(tick, chat_ids, chat_ids')
    /\ UNCHANGED <<schedulers, scheduler, sends>>
    /\ UNCHANGED manager_vars

AlreadyRunningNever(ref, objects) == FALSE

\* self.scheduler and self.scheduler.running
AlreadyRunning(ref, objects) == ref # 0 /\ objects[ref].running

\* HealthMonitor.start: returns if the scheduler runs; else makes a new
\* AsyncIOScheduler with the health_check job, starts it, and registers
\* every allowed user.  The call is recorded with whether a scheduler was
\* running when it was made.
start(schedulerBound) ==
    /\ AtAwait(tick.pc)
    /\ call' = [op |-> "start",
                running |-> scheduler # 0 /\ schedulers[scheduler].running]
    /\ ret' = <<>>
    /\ IF AlreadyRunning(scheduler, schedulers)
       THEN UNCHANGED <<schedulers, scheduler, chat_ids, tick>>
       ELSE /\ Len(schedulers) < schedulerBound
            /\ schedulers' = Append(schedulers,
                                    [running |-> TRUE, jobs |-> {"health_check"}])
            /\ scheduler' = Len(schedulers) + 1
            /\ chat_ids' = chat_ids \cup allowed_user_ids
            /\ tick' = NoteChange(tick, chat_ids, chat_ids')
    /\ UNCHANGED <<now, alerts, last_alert_time, active_alerts, returned, sends>>

\* what scheduler.shutdown() does to the job in flight: AsyncIOExecutor
\* cancels the job's task, and CancelledError, which `except Exception`
\* does not catch, ends the coroutine at its await
Cancelled(t) == IF t.pc = "idle" THEN t ELSE Ended(t, "CancelledError")

\* HealthMonitor.stop, on the monitor's state: shuts a running scheduler
\* down, else only logs
StopMonitor ==
    /\ AtAwait(tick.pc)
    /\ call' = [op |-> "stop"]
    /\ ret' = <<>>
    /\ IF scheduler # 0 /\ schedulers[scheduler].running
       THEN /\ schedulers' = [schedulers EXCEPT ![scheduler].running = FALSE]
            /\ tick' = Cancelled(tick)
       ELSE UNCHANGED <<schedulers, tick>>
    /\ UNCHANGED <<now, alerts, last_alert_time, active_alerts, returned>>
    /\ UNCHANGED <<scheduler, chat_ids, sends>>

stop == StopMonitor /\ UNCHANGED life_vars

\* a running scheduler starts its job.  get_cpu_metrics, get_memory_metrics
\* and get_disk_metrics are called in this order; each returns a sample or
\* raises, and the first to raise ends the tick in the except clause:
\* sampled holds the samples got before that.
fire(percents) ==
    /\ tick.pc = "idle"
    /\ AtAwait(cmd.pc)
    /\ \E i \in 1..Len(schedulers) :
          schedulers[i].running /\ "health_check" \in schedulers[i].jobs
    /\ \E n \in 0..3 : \E sampled \in [1..n -> percents] :
          LET t == [pc |-> "check_cpu", sampled |-> sampled, alerts |-> <<>>,
                    idx |-> 1, iter_size |-> 0, pos |-> 0, at_start |-> <<>>,
                    set_changed |-> FALSE, error |-> "none"]
          IN tick' = IF n < 3 THEN Ended(t, "sampling") ELSE t
    /\ sends' = {}
    /\ UNCHANGED <<chat_ids, schedulers, scheduler>>
    /\ UNCHANGED manager_vars

\* cpu_alert = self.alert_manager.check_cpu_alert(cpu_metrics), appended
\* to alerts if it is an alert; memory and disk alike
TickCheck(pc, alert_type, sample, next_pc, heapBound, clockBound) ==
    /\ tick.pc = pc
    /\ AtAwait(cmd.pc)
    /\ CheckAlert(alert_type, sample, heapBound, clockBound)
    /\ tick' = [tick EXCEPT !.pc = next_pc, !.alerts = tick.alerts \o ret']
    /\ UNCHANGED <<chat_ids, schedulers, scheduler, sends>>

tick_check_cpu(heapBound, clockBound) ==
    TickCheck("check_cpu", CPU, tick.sampled[1], "check_memory", heapBound, clockBound)

tick_check_memory(heapBound, clockBound) ==
    TickCheck("check_memory", MEMORY, tick.sampled[2], "check_disk", heapBound, clockBound)

tick_check_disk(heapBound, clockBound) ==
    TickCheck("check_disk", DISK, tick.sampled[3], "broadcast", heapBound, clockBound)

\* `for alert in alerts: await self._send_alert_to_chats(alert)`, up to the
\* first await: the tick ends after the last alert; with no chat registered
\* _send_alert_to_chats returns at once; else the loop over the set begins.
\* at_start keeps, for the properties, the set as each alert's broadcast
\* found it.
broadcast ==
    /\ tick.pc = "broadcast"
    /\ AtAwait(cmd.pc)
    /\ tick' =
          IF tick.idx > Len(tick.alerts)
          THEN Ended(tick, "none")
          ELSE IF chat_ids = {}
               THEN [tick EXCEPT !.idx = tick.idx + 1,
                                 !.at_start = Append(tick.at_start, {})]
               ELSE NextChat([tick EXCEPT !.iter_size = Cardinality(chat_ids),
                                          !.pos = 0,
                                          !.at_start = Append(tick.at_start, chat_ids)],
                             chat_ids)
    /\ sends' = sends \cup Begun(tick')
    /\ UNCHANGED <<chat_ids, schedulers, scheduler>>
    /\ UNCHANGED manager_vars

\* the awaited send_message ends with outcome; the coroutine runs on to
\* its next await
Resume(outcome, t) ==
    /\ tick.pc = "send"
    /\ AtAwait(cmd.pc)
    /\ tick' = t
    /\ sends' = (sends \ Begun(tick))
                  \cup {<<tick.alerts[tick.idx], tick.pos, outcome>>}
                  \cup Begun(t)
    /\ UNCHANGED <<chat_ids, schedulers, scheduler>>
    /\ UNCHANGED manager_vars

send_message_returns == Resume("ok", NextChat(tick, chat_ids))

send_message_raises == Resume("failed", AfterSendError(tick, chat_ids))

\* the scheduler's ticks, with chats registered and unregistered meanwhile
NextMonitor ==
    /\ \/ start(MaxSchedulers)
       \/ register_alert_chat
       \/ unregister_alert_chat
       \/ fire(MonitorPercents)
       \/ tick_check_cpu(MaxMonitorAlerts, MaxMonitorTime)
       \/ tick_check_memory(MaxMonitorAlerts, MaxMonitorTime)
       \/ tick_check_disk(MaxMonitorAlerts, MaxMonitorTime)
       \/ broadcast
       \/ send_message_returns
       \/ send_message_raises
    /\ UNCHANGED <<life_vars, cmd, config_vars, handler_vars>>

SpecMonitor == Init /\ [][NextMonitor]_vars

\* the scheduler's ticks while the clock runs: chats are registered, never
\* unregistered
NextDelivery ==
    /\ \/ start(MaxSchedulers)
       \/ register_alert_chat
       \/ fire(MonitorPercents)
       \/ tick_check_cpu(MaxDeliveryAlerts, MaxDeliveryTime)
       \/ tick_check_memory(MaxDeliveryAlerts, MaxDeliveryTime)
       \/ tick_check_disk(MaxDeliveryAlerts, MaxDeliveryTime)
       \/ broadcast
       \/ send_message_returns
       \/ send_message_raises
       \/ Tick(MaxDeliveryTime) /\ UNCHANGED monitor_vars
    /\ UNCHANGED <<life_vars, cmd, config_vars, handler_vars>>

SpecDelivery == Init /\ [][NextDelivery]_vars

\* ------------------------------------------------------- a scheduled run
\* alert_check_interval of the run: five cooldowns (300 s against 60 s)
alert_check_interval == 5 * cooldown_seconds

\* the CPU samples of the run's ticks: 85, 90, 40 and 96 percent; they are
\* pairwise different, so a tick's record tells which tick it is
ScenarioCpu == <<850, 900, 400, 960>>
\* the memory and disk samples of the run, none above its threshold
ScenarioQuiet == {400, 800}
ScenarioPercents == {850, 900, 400, 960} \cup ScenarioQuiet

\* the number of the tick that is due at the clock's time
DueTick == now \div alert_check_interval

\* the tick due at the clock's time has begun (or none is due yet)
Ran == now = 0 \/ (Len(tick.sampled) = 3 /\ tick.sampled[1] = ScenarioCpu[DueTick])

\* the chats of the run are registered before its first tick
scenario_register == now = 0 /\ tick.sampled = <<>> /\ register_alert_chat

\* the interval trigger waits alert_check_interval from one run of the job
\* to the next
interval_elapses ==
    /\ tick.pc = "idle"
    /\ scheduler # 0
    /\ Ran
    /\ DueTick < Len(ScenarioCpu)
    /\ now' = now + alert_check_interval
    /\ UNCHANGED <<alerts, last_alert_time, active_alerts, call, ret, returned>>
    /\ UNCHANGED monitor_vars

\* the job runs at its time and samples what the run prescribes
scenario_fire ==
    /\ ~Ran
    /\ fire(ScenarioPercents)
    /\ Len(tick'.sampled) = 3
    /\ tick'.sampled[1] = ScenarioCpu[DueTick]
    /\ tick'.sampled[2] \in ScenarioQuiet
    /\ tick'.sampled[3] \in ScenarioQuiet

\* the four ticks of the run; within a tick the clock stands
NextScenario ==
    /\ \/ start(MaxSchedulers)
       \/ scenario_register
       \/ interval_elapses
       \/ scenario_fire
       \/ tick_check_cpu(MaxScenarioAlerts, now)
       \/ tick_check_memory(MaxScenarioAlerts, now)
       \/ tick_check_disk(MaxScenarioAlerts, now)
       \/ broadcast
       \/ send_message_returns
       \/ send_message_raises
    /\ UNCHANGED <<life_vars, cmd, config_vars, handler_vars>>

SpecScenario == Init /\ [][NextScenario]_vars

\* ------------------------------------------------- overlapping cycles
\* check_system_health is called while the cycle in flight is suspended in
\* send_message: a second coroutine of the same method begins.  tick is the
\* cycle that runs, cmd keeps the suspended one.
check_system_health_now(percents) ==
    /\ tick.pc = "send"
    /\ cmd.pc = "idle"
    /\ cmd' = [pc |-> "send", cycle |-> tick]
    /\ \E n \in 0..3 : \E sampled \in [1..n -> percents] :
          LET t == [pc |-> "check_cpu", sampled |-> sampled, alerts |-> <<>>,
                    idx |-> 1, iter_size |-> 0, pos |-> 0, at_start |-> <<>>,
                    set_changed |-> FALSE, error |-> "none"]
          IN tick' = IF n < 3 THEN Ended(t, "sampling") ELSE t
    /\ UNCHANGED <<chat_ids, schedulers, scheduler, sends>>
    /\ UNCHANGED manager_vars

\* the event loop, with the running cycle at an await or ended, turns to
\* the suspended one, whose send is about to end
switch_cycle ==
    /\ cmd.pc = "send"
    /\ AtAwait(tick.pc)
    /\ tick' = cmd.cycle
    /\ cmd' = IF tick.pc = "send" THEN [pc |-> "send", cycle |-> tick]
                                  ELSE [pc |-> "idle"]
    /\ UNCHANGED <<chat_ids, schedulers, scheduler, sends>>
    /\ UNCHANGED manager_vars

\* scheduled ticks and off-schedule cycles, overlapping at the sends
NextOverlap ==
    /\ \/ start(MaxSchedulers) /\ UNCHANGED cmd
       \/ fire(LifePercents) /\ UNCHANGED cmd
       \/ tick_check_cpu(MaxDeliveryAlerts, MaxDeliveryTime) /\ UNCHANGED cmd
       \/ tick_check_memory(MaxDeliveryAlerts, MaxDeliveryTime) /\ UNCHANGED cmd
       \/ tick_check_disk(MaxDeliveryAlerts, MaxDeliveryTime) /\ UNCHANGED cmd
       \/ broadcast /\ UNCHANGED cmd
       \/ send_message_returns /\ UNCHANGED cmd
       \/ send_message_raises /\ UNCHANGED cmd
       \/ check_system_health_now(LifePercents)
       \/ switch_cycle
       \/ Tick(MaxDeliveryTime) /\ UNCHANGED <<monitor_vars, cmd>>
    /\ UNCHANGED <<life_vars, config_vars, handler_vars>>

SpecOverlap == Init /\ [][NextOverlap]_vars

\* ------------------------------------------------------- command path
\* A command handler, a coroutine on the same event loop as the ticks,
\* calls the manager.  clear_alerts with a kind first builds the filtered
\* list from self._active_alerts ...
cmd_clear_begin ==
    /\ cmd.pc = "idle"
    /\ AtAwait(tick.pc)
    /\ \E alert_type \in AlertType :
          cmd' = [pc |-> "clear_assign", alert_type |-> alert_type,
                  built |-> FilterSeq(alerts, active_alerts, AlertType \ {alert_type})]
    /\ UNCHANGED <<manager_vars, monitor_vars>>

\* ... and then binds self._active_alerts to it
cmd_clear_assign ==
    /\ cmd.pc = "clear_assign"
    /\ AtAwait(tick.pc)
    /\ call' = [op |-> "clear_alerts", alert_type |-> cmd.alert_type]
    /\ active_alerts' = cmd.built
    /\ returned' = AfterRebind(returned)
    /\ ret' = <<>>
    /\ cmd' = [pc |-> "idle"]
    /\ UNCHANGED <<now, alerts, last_alert_time>>
    /\ UNCHANGED monitor_vars

\* clear_alerts() without a kind: self._active_alerts.clear()
cmd_clear_all ==
    /\ cmd.pc = "idle"
    /\ AtAwait(tick.pc)
    /\ ClearAlerts(None)
    /\ UNCHANGED <<cmd, monitor_vars>>

\* acknowledge_alert from a command handler
cmd_acknowledge ==
    /\ cmd.pc = "idle"
    /\ AtAwait(tick.pc)
    /\ acknowledge_alert
    /\ UNCHANGED <<cmd, monitor_vars>>

\* the ticks, with command handlers that acknowledge and clear
NextSerial ==
    /\ \/ start(MaxSchedulers) /\ UNCHANGED cmd
       \/ fire(LifePercents) /\ UNCHANGED cmd
       \/ tick_check_cpu(MaxMonitorAlerts, MaxMonitorTime) /\ UNCHANGED cmd
       \/ tick_check_memory(MaxMonitorAlerts, MaxMonitorTime) /\ UNCHANGED cmd
       \/ tick_check_disk(MaxMonitorAlerts, MaxMonitorTime) /\ UNCHANGED cmd
       \/ broadcast /\ UNCHANGED cmd
       \/ send_message_returns /\ UNCHANGED cmd
       \/ send_message_raises /\ UNCHANGED cmd
       \/ cmd_clear_begin
       \/ cmd_clear_assign
       \/ cmd_clear_all
       \/ cmd_acknowledge
    /\ UNCHANGED <<life_vars, config_vars, handler_vars>>

SpecSerial == Init /\ [][NextSerial]_vars

\* ------------------------------------------------------------ Settings
\* the Field bounds of the alerting settings (whole percents and seconds)
MinThreshold == 1
MaxThreshold == 100
MinCheckInterval == 60
MinCooldown == 60

\* values the environment may give the five alerting settings
ThresholdValues == {-1, 0, 1, 100, 101}
CheckIntervalValues == {59, 60, 300}
CooldownValues == {-1, 0, 59, 60}

Environments ==
    [cpu_alert_threshold : ThresholdValues,
     memory_alert_threshold : ThresholdValues,
     disk_alert_threshold : ThresholdValues,
     alert_check_interval : CheckIntervalValues,
     alert_cooldown : CooldownValues]

FieldsValidCooldownUnchecked(env) ==
    /\ env.cpu_alert_threshold \in MinThreshold..MaxThreshold
    /\ env.memory_alert_threshold \in MinThreshold..MaxThreshold
    /\ env.disk_alert_threshold \in MinThreshold..MaxThreshold
    /\ env.alert_check_interval >= MinCheckInterval

\* the ge / le constraints pydantic checks when Settings() is built
FieldsValid(env) ==
    /\ env.cpu_alert_threshold \in MinThreshold..MaxThreshold
    /\ env.memory_alert_threshold \in MinThreshold..MaxThreshold
    /\ env.disk_alert_threshold \in MinThreshold..MaxThreshold
    /\ env.alert_check_interval >= MinCheckInterval
    /\ env.alert_cooldown >= MinCooldown

\* settings = Settings(), run when config is imported, before main():
\* a ValidationError ends the process there
load_settings ==
    /\ process = "not started"
    /\ \E env \in Environments :
          /\ call' = [op |-> "Settings", env |-> env]
          /\ IF FieldsValid(env)
             THEN settings' = <<env>> /\ process' = "loaded"
             ELSE settings' = <<>> /\ process' = "failed"
    /\ ret' = <<>>
    /\ UNCHANGED <<now, alerts, last_alert_time, active_alerts, returned>>
    /\ UNCHANGED <<monitor_vars, life_vars, cmd, handler_vars>>

\* BotApplication.initialize: the AlertManager is made from the settings
initialize ==
    /\ process = "loaded"
    /\ process' = "initialized"
    /\ call' = [op |-> "AlertManager",
                cpu_threshold |-> settings[1].cpu_alert_threshold,
                memory_threshold |-> settings[1].memory_alert_threshold,
                disk_threshold |-> settings[1].disk_alert_threshold,
                cooldown_seconds |-> settings[1].alert_cooldown]
    /\ ret' = <<>>
    /\ UNCHANGED <<now, alerts, last_alert_time, active_alerts, returned>>
    /\ UNCHANGED <<monitor_vars, life_vars, cmd, settings, handler_vars>>

\* BotApplication.start: starts the health monitor, whose job runs every
\* settings.alert_check_interval seconds
app_start ==
    /\ process = "initialized"
    /\ process' = "running"
    /\ start(MaxSchedulers)
    /\ UNCHANGED <<life_vars, cmd, settings, handler_vars>>

\* the start of the process under any environment
NextConfig ==
    \/ load_settings
    \/ initialize
    \/ app_start

SpecConfig == Init /\ [][NextConfig]_vars

\* ----------------------------------------------------- BotApplication
StopOrderMonitorLast == <<"updater.stop", "app.stop", "app.shutdown", "health_monitor.stop">>

\* what BotApplication.stop does, in its order; the last three are awaited
StopOrder == <<"health_monitor.stop", "updater.stop", "app.stop", "app.shutdown">>

\* the next step of BotApplication.stop: app.shutdown() closes the
\* transport the sends go through
app_stop ==
    /\ app < Len(StopOrder)
    /\ app' = app + 1
    /\ IF StopOrder[app + 1] = "health_monitor.stop"
       THEN StopMonitor /\ UNCHANGED transport
       ELSE /\ AtAwait(tick.pc)
            /\ transport' = IF StopOrder[app + 1] = "app.shutdown"
                            THEN "closed" ELSE transport
            /\ UNCHANGED <<manager_vars, monitor_vars>>

\* the application from its start to the end of its stop: the monitor is
\* started and stopped by its owner until BotApplication.stop begins
NextLife ==
    /\ \/ app = 0 /\ start(MaxLifeSchedulers) /\ UNCHANGED life_vars
       \/ app = 0 /\ stop
       \/ app_stop
       \/ fire(LifePercents) /\ UNCHANGED life_vars
       \/ tick_check_cpu(MaxMonitorAlerts, MaxMonitorTime) /\ UNCHANGED life_vars
       \/ tick_check_memory(MaxMonitorAlerts, MaxMonitorTime) /\ UNCHANGED life_vars
       \/ tick_check_disk(MaxMonitorAlerts, MaxMonitorTime) /\ UNCHANGED life_vars
       \/ broadcast /\ UNCHANGED life_vars
       \/ send_message_returns /\ UNCHANGED life_vars
       \/ send_message_raises /\ UNCHANGED life_vars
    /\ UNCHANGED <<cmd, config_vars, handler_vars>>

SpecLife == Init /\ [][NextLife]_vars

\* ------------------------------------------------------------ handlers
\* context.args is empty
NoContainer == ""

\* callback data, split at the underscores
CallbackData ==
    {<<"cmd", "status">>}
        \cup {<<"docker", action, name>> : action \in DockerActions, name \in ContainerNames}
        \cup {<<"confirm", action, name>> : action \in DockerActions, name \in Containers}

\* str(e)[:200]
Truncate(len) == IF len > MaxErrorText THEN MaxErrorText ELSE len

AuthorizedAnyUser(user) == user # NoUser

\* authorized_only and handle_callback: the update has a user and the user's
\* id is in settings.allowed_user_ids
Authorized(user) == user # NoUser /\ user \in allowed_user_ids

\* rate_limited: the timestamps of the user that are younger than the period
Cleaned(list, t) ==
    SelectSeq(list, LAMBDA timestamp : t - timestamp < rate_limit_period)

AdmitsOneMore(list) == ~(Len(list) > rate_limit_calls)

\* rate_limited: the request passes unless the cleaned list holds
\* rate_limit_calls timestamps or more
Admits(list) == ~(Len(list) >= rate_limit_calls)

\* rate_limited: the storage after a request of the user at the current time
StorageAfter(user) ==
    LET cleaned == Cleaned(rate_limit_storage[user], now)
    IN [rate_limit_storage EXCEPT
           ![user] = IF Admits(cleaned) THEN Append(cleaned, now) ELSE cleaned]

\* the times at which requests passed rate_limited, after a request of the user
AdmissionsAfter(user) ==
    IF Admits(Cleaned(rate_limit_storage[user], now))
    THEN [admissions EXCEPT ![user] = Append(@, now)]
    ELSE admissions

\* the engine after it restarted, stopped or started a container
Carry(eng, action, name) ==
    [status |-> [eng.status EXCEPT
                    ![name] = IF action = "stop" THEN "exited" ELSE "running"],
     calls |-> eng.calls \cup {<<action, name>>}]

\* DockerManager.restart_container, stop_container, start_container: True,
\* False for a container the engine does not know, or a DockerException
\* (err is the length of its text, 0 for none)
ContainerAction(eng, action, name, err) ==
    IF err > 0 THEN [engine |-> eng, outcome |-> "raised"]
    ELSE IF name \notin Containers THEN [engine |-> eng, outcome |-> "not found"]
    ELSE [engine |-> Carry(eng, action, name), outcome |-> "done"]

\* the container action a docker_* command asks for
ActionOf(name) ==
    CASE name = "docker_restart" -> "restart"
      [] name = "docker_stop" -> "stop"
      [] name = "docker_start" -> "start"

\* a reply_text or edit_message_text call: sent, or raising when the chat
\* transport is down
Replied(h, reply, error_len, net) ==
    IF net = "up"
    THEN [h EXCEPT !.reply = reply, !.error_len = error_len]
    ELSE [h EXCEPT !.raised = TRUE]

\* error_handler(typing_action(func)) for the command handlers: what becomes
\* of the update and of the engine
Handler(h, name, arg, err, net) ==
    IF net = "down"
    THEN \* send_chat_action raises, and so does error_handler's reply
         [engine |-> engine, handled |-> [h EXCEPT !.failed = TRUE, !.raised = TRUE]]
    ELSE LET entered == [h EXCEPT !.body = TRUE]
             failing == [entered EXCEPT !.failed = TRUE]
         IN CASE name = "start" ->
                    \* start_command has no except clause: error_handler replies
                    [engine |-> engine,
                     handled |-> IF err > 0
                                 THEN Replied(failing, "error", Truncate(err), net)
                                 ELSE Replied(entered, "answer", 0, net)]
              [] name = "status" ->
                    \* status_command replies with str(e) itself
                    [engine |-> engine,
                     handled |-> IF err > 0
                                 THEN Replied(failing, "error", err, net)
                                 ELSE Replied(entered, "answer", 0, net)]
              [] OTHER ->
                    IF arg = NoContainer
                    THEN [engine |-> engine,
                          handled |-> Replied(entered, "usage", 0, net)]
                    ELSE LET result == ContainerAction(engine, ActionOf(name), arg, err)
                         IN [engine |-> result.engine,
                             handled |->
                                 CASE result.outcome = "raised" ->
                                          Replied(failing, "error", err, net)
                                   [] result.outcome = "not found" ->
                                          Replied(entered, "not found", 0, net)
                                   [] OTHER -> Replied(entered, "done", 0, net)]

\* a command update passing through standard_handler: authorized_only,
\* rate_limited, log_execution, error_handler, typing_action, the handler
command(user, name, arg, err, net) ==
    LET h == [kind |-> "command", user |-> user, data |-> <<name, arg>>,
              net |-> net, failed |-> FALSE, reply |-> "none", error_len |-> 0,
              raised |-> FALSE, body |-> FALSE]
    IN /\ UNCHANGED confirmations
       /\ IF user = NoUser
          THEN /\ handled' = h
               /\ UNCHANGED <<rate_limit_storage, admissions, engine>>
          ELSE IF ~Authorized(user)
          THEN /\ handled' = Replied(h, "denied", 0, net)
               /\ UNCHANGED <<rate_limit_storage, admissions, engine>>
          ELSE /\ rate_limit_storage' = StorageAfter(user)
               /\ admissions' = AdmissionsAfter(user)
               /\ IF ~Admits(Cleaned(rate_limit_storage[user], now))
                  THEN /\ handled' = Replied(h, "rate limited", 0, net)
                       /\ UNCHANGED engine
                  ELSE LET result == Handler(h, name, arg, err, net)
                       IN /\ handled' = result.handled
                          /\ engine' = result.engine

\* CallbackHandlers.handle_callback for a pressed button
callback(user, data, err, net) ==
    LET h == [kind |-> "callback", user |-> user, data |-> data,
              net |-> net, failed |-> FALSE, reply |-> "none", error_len |-> 0,
              raised |-> FALSE, body |-> FALSE]
        entered == [h EXCEPT !.body = TRUE]
        failing == [entered EXCEPT !.failed = TRUE]
    IN /\ UNCHANGED <<rate_limit_storage, admissions>>
       /\ IF net = "down"
          THEN \* query.answer() raises
               /\ handled' = [h EXCEPT !.raised = TRUE]
               /\ UNCHANGED <<engine, confirmations>>
          ELSE IF ~Authorized(user)
          THEN /\ handled' = Replied(h, "denied", 0, net)
               /\ UNCHANGED <<engine, confirmations>>
          ELSE /\ confirmations' =
                      IF data[1] = "confirm"
                      THEN confirmations \cup {<<data[2], data[3]>>}
                      ELSE confirmations
               /\ IF data = <<"cmd", "status">>
                  THEN /\ handled' = IF err > 0
                                     THEN Replied(failing, "error", Truncate(err), net)
                                     ELSE Replied(entered, "answer", 0, net)
                       /\ UNCHANGED engine
                  ELSE IF data[1] = "docker"
                  THEN LET result == ContainerAction(engine, data[2], data[3], err)
                       IN /\ engine' = result.engine
                          /\ handled' =
                                 CASE result.outcome = "raised" ->
                                          Replied(failing, "error", Truncate(err), net)
                                   [] result.outcome = "not found" ->
                                          Replied(entered, "not found", 0, net)
                                   [] OTHER -> Replied(entered, "done", 0, net)
                  ELSE /\ handled' = Replied(entered, "unknown", 0, net)
                       /\ UNCHANGED engine

\* a request of a user reaching a function wrapped in rate_limited
rate_limited(user) ==
    /\ rate_limit_storage' = StorageAfter(user)
    /\ admissions' = AdmissionsAfter(user)
    /\ handled' = [kind |-> "request", user |-> user, data |-> <<>>, net |-> "up",
                   failed |-> FALSE,
                   reply |-> IF Admits(Cleaned(rate_limit_storage[user], now))
                             THEN "answer" ELSE "rate limited",
                   error_len |-> 0, raised |-> FALSE,
                   body |-> Admits(Cleaned(rate_limit_storage[user], now))]
    /\ UNCHANGED <<engine, confirmations>>

\* time.time() advances between updates
HandlerTick(clockBound) ==
    /\ now < clockBound
    /\ now' = now + 1
    /\ UNCHANGED handler_vars

\* commands and callbacks arriving in any order, within one rate-limit period
NextHandlers ==
    /\ \/ \E user \in UserIds \cup {NoUser}, name \in Commands,
             arg \in ContainerNames \cup {NoContainer},
             err \in {0} \cup ErrorLengths, net \in {"up", "down"} :
               command(user, name, arg, err, net) /\ UNCHANGED now
       \/ \E user \in UserIds \cup {NoUser}, data \in CallbackData,
             err \in {0} \cup ErrorLengths, net \in {"up", "down"} :
               callback(user, data, err, net) /\ UNCHANGED now
    /\ UNCHANGED <<alerts, last_alert_time, active_alerts, call, ret, returned>>
    /\ UNCHANGED <<monitor_vars, life_vars, cmd, config_vars>>

SpecHandlers == Init /\ [][NextHandlers]_vars

\* requests of any user reaching the rate limiter as time passes
NextLimiter ==
    /\ \/ \E user \in UserIds : rate_limited(user) /\ UNCHANGED now
       \/ HandlerTick(MaxLimiterTime)
    /\ UNCHANGED <<alerts, last_alert_time, active_alerts, call, ret, returned>>
    /\ UNCHANGED <<monitor_vars, life_vars, cmd, config_vars>>

SpecLimiter == Init /\ [][NextLimiter]_vars

TypeOK ==
    /\ now \in 0..MaxTime
    /\ \A i \in 1..Len(active_alerts) : active_alerts[i] \in 1..Len(alerts)

\* ------------------------------------------------------------ claims
\* a step in which only the clock moves
TickStep ==
    /\ now' = now + 1
    /\ UNCHANGED <<alerts, last_alert_time, active_alerts, call, ret, returned>>
    /\ UNCHANGED <<monitor_vars, life_vars, cmd, config_vars, handler_vars>>

\* a step that is a call of the named method
CallStep(op) == call'.op = op /\ ~TickStep

\* the references held by a list
Refs(list) == {list[i] : i \in 1..Len(list)}

\* an alert built by a threshold check (a custom alert carries threshold 0.0)
FromCheck(alert) == alert.alert_type \in CheckedTypes /\ alert.threshold # 0

\* C1 as stated: for every kind, whatever the operations called, no two
\* alerts of that kind are emitted closer together than cooldown_seconds.
C1_AnyTwoAlertsCooldownApart ==
    \A i \in 1..Len(alerts), j \in 1..Len(alerts) :
        (i < j /\ alerts[i].alert_type = alerts[j].alert_type)
            => alerts[j].timestamp - alerts[i].timestamp >= cooldown_seconds

\* C1 amended: an alert emitted by a threshold check is stamped at least
\* cooldown_seconds after every earlier alert of its kind (so no two alerts
\* the checks emit for a kind are closer than the cooldown);
\* create_custom_alert is not held to the cooldown.
C1_CheckAlertsCooldownApart ==
    [][(CallStep("check_alert") /\ ret' # <<>>)
          => \A i \in 1..Len(alerts) :
                alerts[i].alert_type = call'.alert_type
                    => alerts'[ret'[1]].timestamp - alerts[i].timestamp
                          >= cooldown_seconds]_vars

\* two alerts of one kind, both emitted by checks
C1_Witness ==
    /\ call.op = "check_alert"
    /\ ret = <<2>>
    /\ FromCheck(alerts[1])
    /\ FromCheck(alerts[2])
    /\ alerts[1].alert_type = alerts[2].alert_type

\* C2: a check with a value at or below the kind's threshold returns no
\* alert and leaves the last-emission map and the active list unchanged.
C2_NoAlertAtOrBelowThreshold ==
    [][(CallStep("check_alert") /\ call'.percent <= Threshold(call'.alert_type))
          => /\ ret' = <<>>
             /\ UNCHANGED <<last_alert_time, active_alerts>>]_vars

\* a check with the value equal to the threshold, the kind free to alert
\* and the list not empty, returned nothing
C2_Witness ==
    /\ call.op = "check_alert"
    /\ call.percent = Threshold(call.alert_type)
    /\ call.alert_type \notin DOMAIN last_alert_time
    /\ active_alerts # <<>>
    /\ ret = <<>>

\* C3: with no alert emitted for the kind yet (a fresh manager included), a
\* check with a value above the threshold returns an alert of that kind
\* carrying the value and the kind's configured threshold, appended to the
\* active list.
C3_FirstCheckAboveThresholdAlerts ==
    [][(/\ CallStep("check_alert")
        /\ call'.alert_type \notin DOMAIN last_alert_time
        /\ call'.percent > Threshold(call'.alert_type))
          => /\ ret' = <<Len(alerts) + 1>>
             /\ Len(alerts') = Len(alerts) + 1
             /\ alerts'[ret'[1]].alert_type = call'.alert_type
             /\ alerts'[ret'[1]].metric_value = call'.percent
             /\ alerts'[ret'[1]].threshold = Threshold(call'.alert_type)
             /\ active_alerts' = Append(active_alerts, ret'[1])]_vars

\* the first call on a fresh manager was a check that alerted
C3_Witness ==
    /\ call.op = "check_alert"
    /\ call.percent > Threshold(call.alert_type)
    /\ ret = <<1>>
    /\ Len(alerts) = 1
    /\ active_alerts = <<1>>
    /\ alerts[1].metric_value = call.percent

\* C4: while less than cooldown_seconds have passed since the kind's last
\* emission, a check above the threshold returns no alert and changes
\* neither the last-emission map nor the active list (nor any alert).
C4_SuppressedWithinCooldown ==
    [][(/\ CallStep("check_alert")
        /\ call'.percent > Threshold(call'.alert_type)
        /\ call'.alert_type \in DOMAIN last_alert_time
        /\ now - last_alert_time[call'.alert_type] < cooldown_seconds)
          => /\ ret' = <<>>
             /\ UNCHANGED <<last_alert_time, active_alerts, alerts>>]_vars

\* a check above the threshold, one second after the kind alerted, returned nothing
C4_Witness ==
    /\ call.op = "check_alert"
    /\ call.percent > Threshold(call.alert_type)
    /\ call.alert_type \in DOMAIN last_alert_time
    /\ now - last_alert_time[call.alert_type] = 1
    /\ ret = <<>>

\* C5: once cooldown_seconds or more have passed since the kind's last
\* emission, a check above the threshold emits a new alert and stamps the
\* kind with a clock value read during that call.
C5_EmitsAgainAfterCooldown ==
    [][(/\ CallStep("check_alert")
        /\ call'.percent > Threshold(call'.alert_type)
        /\ call'.alert_type \in DOMAIN last_alert_time
        /\ now - last_alert_time[call'.alert_type] >= cooldown_seconds)
          => /\ ret' = <<Len(alerts) + 1>>
             /\ alerts' = Append(alerts, alerts'[ret'[1]])
             /\ FromCheck(alerts'[ret'[1]])
             /\ active_alerts' = Append(active_alerts, ret'[1])
             /\ last_alert_time'[call'.alert_type] >= now
             /\ last_alert_time'[call'.alert_type] <= now']_vars

\* a second alert of a kind, emitted when exactly cooldown_seconds had passed
C5_Witness ==
    /\ call.op = "check_alert"
    /\ ret = <<2>>
    /\ FromCheck(alerts[1])
    /\ FromCheck(alerts[2])
    /\ alerts[1].alert_type = alerts[2].alert_type
    /\ alerts[2].timestamp - alerts[1].timestamp = cooldown_seconds
    /\ last_alert_time[call.alert_type] = alerts[2].timestamp

\* C6: an alert a threshold check emits is critical exactly when its value
\* is above 95 (tenths: 950) and warning otherwise; 95.0 gives warning.
C6_SeverityBoundary ==
    [][(CallStep("check_alert") /\ ret' # <<>>)
          => alerts'[ret'[1]].severity
                = IF call'.percent > 950 THEN "critical" ELSE "warning"]_vars

\* alerts of all three kinds, one of them at exactly 95.0 and a warning
C6_Witness ==
    /\ call.op = "check_alert"
    /\ call.percent = 950
    /\ ret # <<>>
    /\ alerts[ret[1]].severity = "warning"
    /\ alerts[ret[1]].metric_value = 950

\* C7: when the kind's latest alert is a warning and the cooldown has not
\* run out, a check with a value that would be critical emits nothing.
C7_EscalationSuppressed ==
    [][(/\ CallStep("check_alert")
        /\ call'.percent > 950
        /\ call'.alert_type \in DOMAIN last_alert_time
        /\ now - last_alert_time[call'.alert_type] < cooldown_seconds
        /\ \E i \in 1..Len(alerts) :
              /\ alerts[i].alert_type = call'.alert_type
              /\ alerts[i].severity = "warning"
              /\ \A j \in (i + 1)..Len(alerts) :
                    alerts[j].alert_type # call'.alert_type)
          => /\ ret' = <<>>
             /\ alerts' = alerts
             /\ active_alerts' = active_alerts]_vars

\* a warning from a check is the only alert, and a check of the same kind
\* with 95.1 inside the cooldown returned nothing
C7_Witness ==
    /\ call.op = "check_alert"
    /\ call.percent = 951
    /\ ret = <<>>
    /\ Len(alerts) = 1
    /\ FromCheck(alerts[1])
    /\ alerts[1].alert_type = call.alert_type
    /\ alerts[1].severity = "warning"
    /\ now - last_alert_time[call.alert_type] < cooldown_seconds

\* the list without the reference ref
Without(list, ref) == SelectSeq(list, LAMBDA x : x # ref)

\* elem and ref are equal in every field but, possibly, acknowledged
Twin(elem, ref) ==
    /\ elem # ref
    /\ [alerts[elem] EXCEPT !.acknowledged = TRUE]
          = [alerts[ref] EXCEPT !.acknowledged = TRUE]

\* C8: acknowledge_alert(a) with a in the active list removes that very
\* object from the list and sets its flag; every other active alert stays,
\* in the same order, and no other alert object changes.
C8_AcknowledgeRemovesThatAlert ==
    [][(CallStep("acknowledge_alert") /\ call'.alert \in Refs(active_alerts))
          => /\ active_alerts' = Without(active_alerts, call'.alert)
             /\ alerts'[call'.alert].acknowledged
             /\ \A x \in 1..Len(alerts) : x # call'.alert => alerts'[x] = alerts[x]
             /\ Len(alerts') = Len(alerts)]_vars

\* the acknowledged alert left the list while an earlier alert with the
\* same field values is still in it, unacknowledged, with another one
C8_Witness ==
    /\ call.op = "acknowledge_alert"
    /\ alerts[call.alert].acknowledged
    /\ call.alert \notin Refs(active_alerts)
    /\ Len(active_alerts) = 2
    /\ \E x \in Refs(active_alerts) :
          /\ x < call.alert
          /\ Twin(x, call.alert)
          /\ ~alerts[x].acknowledged

\* C9: acknowledge_alert on an alert that is not in the active list (one
\* acknowledged before, or one that was cleared) leaves the active list and
\* the last-emission map as they were.
C9_AcknowledgeAbsentIsNoOp ==
    [][(CallStep("acknowledge_alert") /\ call'.alert \notin Refs(active_alerts))
          => UNCHANGED <<active_alerts, last_alert_time>>]_vars

\* the alert acknowledged last had been cleared (a later alert is cleared
\* too and was never acknowledged), and the list holds an alert with the
\* same field values
C9_Witness ==
    /\ call.op = "acknowledge_alert"
    /\ \E z \in 1..Len(alerts) :
          /\ z > call.alert
          /\ z \notin Refs(active_alerts)
          /\ ~alerts[z].acknowledged
    /\ \E w \in Refs(active_alerts) : Twin(w, call.alert)

\* C10: clear_alerts(kind) leaves in the active list exactly the alerts of
\* the other kinds, in their order; clear_alerts() leaves it empty.
C10_ClearRemovesThatKindOnly ==
    [][CallStep("clear_alerts")
          => /\ active_alerts' =
                   IF call'.alert_type = None
                   THEN <<>>
                   ELSE SelectSeq(active_alerts,
                                  LAMBDA x : alerts[x].alert_type # call'.alert_type)
             /\ alerts' = alerts]_vars

\* clear_alerts(kind) took both alerts of the kind out, the one before and
\* the one after the alert of another kind, which stays
C10_Witness ==
    /\ call.op = "clear_alerts"
    /\ call.alert_type # None
    /\ Len(active_alerts) = 1
    /\ alerts[active_alerts[1]].alert_type # call.alert_type
    /\ \E x \in 1..Len(alerts), y \in 1..Len(alerts) :
          /\ x < active_alerts[1]
          /\ active_alerts[1] < y
          /\ alerts[x].alert_type = call.alert_type
          /\ alerts[y].alert_type = call.alert_type
          /\ ~alerts[x].acknowledged
          /\ ~alerts[y].acknowledged

\* C11: clear_alerts (with a kind or without) and acknowledge_alert leave
\* the last-emission map as it was, and a check above the threshold made
\* right after a clear, less than cooldown_seconds after an alert of its
\* kind was created, returns no alert and changes nothing.
C11_ClearAndAcknowledgeKeepCooldown ==
    [][/\ (CallStep("clear_alerts") \/ CallStep("acknowledge_alert"))
             => UNCHANGED last_alert_time
       /\ (/\ CallStep("check_alert")
           /\ call.op = "clear_alerts"
           /\ call'.percent > Threshold(call'.alert_type)
           /\ \E i \in 1..Len(alerts) :
                 /\ alerts[i].alert_type = call'.alert_type
                 /\ now - alerts[i].timestamp < cooldown_seconds)
             => /\ ret' = <<>>
                /\ UNCHANGED <<alerts, active_alerts, last_alert_time>>]_vars

\* a check above the threshold returned nothing although the active list
\* is empty: the kind's alert, never acknowledged, was cleared less than
\* cooldown_seconds after it was emitted
C11_Witness ==
    /\ call.op = "check_alert"
    /\ call.percent > Threshold(call.alert_type)
    /\ ret = <<>>
    /\ active_alerts = <<>>
    /\ \E i \in 1..Len(alerts) :
          /\ alerts[i].alert_type = call.alert_type
          /\ ~alerts[i].acknowledged
          /\ now - alerts[i].timestamp < cooldown_seconds

\* a step in which the caller changes the list it holds
CallerStep == CallStep("list.append") \/ CallStep("list.remove") \/ CallStep("list.reverse")

\* C12: get_active_alerts hands out the active alerts in emission order and
\* leaves the manager's list alone; appending to, removing from or
\* reversing the list handed out does not change the manager's list; and a
\* later emission, acknowledgement or clear does not change a list handed
\* out earlier.
C12_ActiveAlertsIsACopy ==
    [][/\ CallStep("get_active_alerts")
             => /\ returned'[1].items = active_alerts
                /\ \A i \in 1..Len(active_alerts), j \in 1..Len(active_alerts) :
                      i < j => returned'[1].items[i] < returned'[1].items[j]
                /\ UNCHANGED active_alerts
       /\ CallerStep => UNCHANGED active_alerts
       /\ (returned # <<>> /\ ~CallerStep /\ ~CallStep("get_active_alerts"))
             => returned'[1].items = returned[1].items]_vars

\* the caller has just changed a list handed out earlier; since the list
\* was handed out an alert was emitted (it is active and not in the list),
\* and the manager's list is unlike the caller's
C12_Witness ==
    /\ returned # <<>>
    /\ call.op \in {"list.append", "list.remove", "list.reverse"}
    /\ returned[1].items # <<>>
    /\ returned[1].items # active_alerts
    /\ Len(active_alerts) = 2
    /\ \E x \in Refs(active_alerts) : x \notin Refs(returned[1].items)

\* ------------------------------------------------ claims: HealthMonitor
\* by the record made, send_message was called for the alert and the chat,
\* and has ended
SentIn(made, ref, chat_id) ==
    <<ref, chat_id, "ok">> \in made \/ <<ref, chat_id, "failed">> \in made

Sent(ref, chat_id) == SentIn(sends, ref, chat_id)

\* the step in which check_system_health returns
TickEnds == tick.pc # "idle" /\ tick'.pc = "idle"

\* C13: a tick that sampled all three metrics, during which the chat set
\* did not change, ends normally whatever sends failed, with send_message
\* called for every alert of the tick and every registered chat: a failed
\* send stops neither the other chats' sends nor the later alerts'.
C13_FailedSendStopsNothing ==
    [][(TickEnds /\ ~tick'.set_changed /\ tick'.error # "sampling")
          => /\ tick'.error = "none"
             /\ \A i \in 1..Len(tick'.alerts), c \in chat_ids :
                   SentIn(sends', tick'.alerts[i], c)]_vars

\* a tick with two alerts and two chats ended normally: the first alert's
\* send to chat 1 failed, its send to chat 2 and the second alert's sends
\* were made all the same
C13_Witness ==
    /\ tick.pc = "idle"
    /\ tick.error = "none"
    /\ ~tick.set_changed
    /\ Len(tick.alerts) >= 2
    /\ chat_ids = {1, 2}
    /\ <<tick.alerts[1], 1, "failed">> \in sends
    /\ <<tick.alerts[1], 2, "ok">> \in sends
    /\ Sent(tick.alerts[2], 1)
    /\ Sent(tick.alerts[2], 2)

\* C14: _send_alert_to_chats called with no chat registered calls
\* send_message for nobody and returns normally (the tick goes on to its
\* next alert); called with one chat registered, whose send fails, it also
\* returns normally.
C14_EmptyOrFailingBroadcastReturns ==
    [][/\ (tick.pc = "broadcast" /\ tick.idx <= Len(tick.alerts) /\ chat_ids = {})
             => /\ sends' = sends
                /\ tick'.pc = "broadcast"
                /\ tick'.idx = tick.idx + 1
                /\ tick'.error = "none"
       /\ (/\ tick.pc = "send"
           /\ ~tick'.set_changed
           /\ chat_ids = {tick.pos}
           /\ <<tick.alerts[tick.idx], tick.pos, "failed">> \in sends')
             => /\ tick'.pc = "broadcast"
                /\ tick'.idx = tick.idx + 1
                /\ tick'.error = "none"]_vars

\* the tick's only alert went to the only chat, the send failed, and the
\* tick ended normally
C14_Witness ==
    /\ tick.pc = "idle"
    /\ tick.error = "none"
    /\ ~tick.set_changed
    /\ Len(tick.alerts) = 1
    /\ chat_ids = {1}
    /\ sends = {<<tick.alerts[1], 1, "failed">>}

\* C15 as stated: a broadcast goes over the chats registered when it began,
\* whatever is registered or unregistered while it is suspended in a send:
\* no tick ends in RuntimeError, and when a tick has ended (after sampling
\* all three metrics) every alert of it was sent to every chat that was
\* registered when that alert's broadcast began.
C15_BroadcastIteratesSnapshot ==
    (tick.pc = "idle" /\ tick.error # "sampling")
        => /\ tick.error = "none"
           /\ Len(tick.at_start) = Len(tick.alerts)
           /\ \A i \in 1..Len(tick.alerts) :
                 \A c \in tick.at_start[i] : Sent(tick.alerts[i], c)

\* the kind sampled k-th in a tick
SampledKind(k) == CASE k = 1 -> CPU [] k = 2 -> MEMORY [] k = 3 -> DISK

\* C16 as stated: when sampling one metric fails the other two are still
\* sampled and evaluated: a tick that ended because a sampling raised has
\* two samples, and left no sampled kind above its threshold and free of
\* the cooldown without an alert.
C16_MetricsIsolated ==
    (tick.pc = "idle" /\ tick.error = "sampling")
        => /\ Len(tick.sampled) = 2
           /\ \A k \in 1..Len(tick.sampled) :
                 ~(/\ Exceeds(tick.sampled[k], Threshold(SampledKind(k)))
                   /\ CanSendAlert(last_alert_time, SampledKind(k), now))

\* the periodic jobs that are active: the health_check jobs of running schedulers
ActiveJobs ==
    Cardinality({i \in 1..Len(schedulers) :
                    schedulers[i].running /\ "health_check" \in schedulers[i].jobs})

\* C17: start() called while the scheduler is running changes nothing: no
\* scheduler object and no job is made, the chats, the tick in flight and
\* the sends stay as they were; and from then on, until stop is called,
\* exactly one health_check job is active however often start() is called.
C17_StartWhileRunningIsNoOp ==
    [][(call'.op = "start" /\ call'.running)
          => /\ schedulers' = schedulers
             /\ scheduler' = scheduler
             /\ ActiveJobs' = 1
             /\ call' # call => UNCHANGED <<chat_ids, tick, sends>>]_vars

\* start() was called while the second scheduler, made by a start after a
\* stop, was running: it is still the only one running
C17_Witness ==
    /\ call = [op |-> "start", running |-> TRUE]
    /\ Len(schedulers) = 2
    /\ scheduler = 2
    /\ ~schedulers[1].running
    /\ schedulers[2].running
    /\ ActiveJobs = 1

C19_ManagerCallsAreSerialized ==
    [][/\ (cmd.pc = "clear_assign" /\ cmd'.pc = "idle")
             => /\ active_alerts' =
                      SelectSeq(active_alerts,
                                LAMBDA x : alerts[x].alert_type # cmd.alert_type)
                /\ last_alert_time' = last_alert_time
       /\ \A x \in Refs(active_alerts') \ Refs(active_alerts) :
             /\ Len(alerts') = Len(alerts) + 1
             /\ x = Len(alerts')
             /\ last_alert_time'[alerts'[x].alert_type] >= alerts'[x].timestamp
       /\ \A x \in Refs(active_alerts) \ Refs(active_alerts') :
             \/ alerts'[x].acknowledged /\ ~alerts[x].acknowledged
             \/ call'.op = "clear_alerts"
                   /\ call'.alert_type \in {None, alerts[x].alert_type}]_vars

\* while the tick is suspended in the send of its first alert, a command
\* handler cleared that alert's kind: the tick's other alerts are still
\* active, in their order
C19_Witness ==
    /\ tick.pc = "send"
    /\ tick.idx = 1
    /\ Len(tick.alerts) = 3
    /\ cmd.pc = "idle"
    /\ call.op = "clear_alerts"
    /\ call.alert_type = alerts[tick.alerts[1]].alert_type
    /\ active_alerts = <<tick.alerts[2], tick.alerts[3]>>

\* C20: settings with a threshold outside 0..100, a negative or zero
\* cooldown or a check interval below 60 s are rejected when they are
\* loaded: the process fails there, with no AlertManager and no scheduler
\* made; a process that got further has none of these.
C20_InvalidConfigurationRejected ==
    /\ (/\ call.op = "Settings"
        /\ \/ call.env.cpu_alert_threshold \notin 0..100
           \/ call.env.memory_alert_threshold \notin 0..100
           \/ call.env.disk_alert_threshold \notin 0..100
           \/ call.env.alert_cooldown <= 0
           \/ call.env.alert_check_interval < 60)
          => (process = "failed" /\ settings = <<>> /\ schedulers = <<>>)
    /\ process = "failed" => (schedulers = <<>> /\ call.op = "Settings")
    /\ process \in {"initialized", "running"}
          => /\ settings[1].cpu_alert_threshold \in 0..100
             /\ settings[1].memory_alert_threshold \in 0..100
             /\ settings[1].disk_alert_threshold \in 0..100
             /\ settings[1].alert_cooldown > 0
             /\ settings[1].alert_check_interval >= 60
    /\ call.op = "AlertManager" => call.cooldown_seconds > 0

\* the process ended at the loading of settings whose only fault is a
\* cooldown of 0
C20_Witness ==
    /\ process = "failed"
    /\ call = [op |-> "Settings",
               env |-> [cpu_alert_threshold |-> 100, memory_alert_threshold |-> 1,
                        disk_alert_threshold |-> 100, alert_check_interval |-> 60,
                        alert_cooldown |-> 0]]
    /\ schedulers = <<>>

\* ------------------------------------------------------------ C25, C26
\* C25: create_custom_alert returns an Alert carrying the title, message and
\* severity it was given and appends it to the active list, which is
\* non-empty afterwards, whether or not its kind is inside its cooldown.
C25_CustomAlertAlwaysCreated ==
    [][CallStep("create_custom_alert")
          => /\ Len(ret') = 1
             /\ ret'[1] = Len(alerts) + 1
             /\ alerts'[ret'[1]].title = call'.title
             /\ alerts'[ret'[1]].message = call'.message
             /\ alerts'[ret'[1]].severity = call'.severity
             /\ alerts'[ret'[1]].alert_type = call'.alert_type
             /\ active_alerts' = Append(active_alerts, ret'[1])
             /\ ListCopy(active_alerts').items # <<>>]_vars

\* a custom alert of kind CPU was created in the second in which a CPU
\* check had emitted, inside the cooldown
C25_Witness ==
    /\ call.op = "create_custom_alert"
    /\ call.alert_type = CPU
    /\ Len(alerts) = 2
    /\ FromCheck(alerts[1])
    /\ alerts[1].alert_type = CPU
    /\ alerts[2].timestamp - alerts[1].timestamp < cooldown_seconds
    /\ active_alerts = <<1, 2>>

RECURSIVE SumOver(_, _)
\* the sum of a dict's values over a set of its keys
SumOver(summary, keys) ==
    IF keys = {} THEN 0
    ELSE LET k == CHOOSE k \in keys : TRUE
         IN summary[k] + SumOver(summary, keys \ {k})

\* C26: whatever calls of the checks, create_custom_alert, acknowledge_alert
\* and clear_alerts were made, no alert of the active list is acknowledged,
\* and the counts of get_alert_summary add up to the length of the list
\* get_active_alerts returns.
C26_ActiveAlertsUnacknowledged ==
    /\ \A i \in 1..Len(active_alerts) : ~alerts[active_alerts[i]].acknowledged
    /\ LET summary == get_alert_summary(alerts, active_alerts)
       IN SumOver(summary, DOMAIN summary) = Len(ListCopy(active_alerts).items)

\* one of three alerts was acknowledged and the two left in the list differ
\* in severity
C26_Witness ==
    /\ Len(alerts) = 3
    /\ Len(active_alerts) = 2
    /\ \E ref \in 1..3 : alerts[ref].acknowledged
    /\ Cardinality(DOMAIN get_alert_summary(alerts, active_alerts)) = 2

\* ----------------------------------------------------------------- C27
\* the program point of a tick at which kind k is checked, and the place of
\* its sample
CheckPc(k) == CASE k = CPU -> "check_cpu" [] k = MEMORY -> "check_memory" [] k = DISK -> "check_disk"

SampleOf(t, k) == t.sampled[CASE k = CPU -> 1 [] k = MEMORY -> 2 [] k = DISK -> 3]

\* the kinds of a sequence of alerts
KindsOf(heap, list) == [i \in 1..Len(list) |-> heap[list[i]].alert_type]

\* C27: a step changes the last-emission time of a kind only by emitting an
\* alert of that kind; a tick's check of a kind whose sample is above its
\* threshold and which has no emission inside its own cooldown emits,
\* whatever the other kinds' last emissions are; and the alerts of one tick
\* are of pairwise different kinds, three at most.
C27_CooldownsIndependent ==
    [][/\ \A k \in AlertType :
             (/\ k \in DOMAIN last_alert_time'
              /\ (k \notin DOMAIN last_alert_time
                    \/ last_alert_time'[k] # last_alert_time[k]))
                => /\ Len(alerts') = Len(alerts) + 1
                   /\ alerts'[Len(alerts')].alert_type = k
       /\ DOMAIN last_alert_time \subseteq DOMAIN last_alert_time'
       /\ \A k \in CheckedTypes :
             (/\ tick.pc = CheckPc(k)
              /\ tick'.pc # tick.pc
              /\ SampleOf(tick, k) > Threshold(k)
              /\ (k \notin DOMAIN last_alert_time
                    \/ now - last_alert_time[k] >= cooldown_seconds))
                => /\ tick'.alerts = Append(tick.alerts, Len(alerts) + 1)
                   /\ alerts'[Len(alerts')].alert_type = k
       /\ Len(tick'.alerts) <= 3
       /\ \A i, j \in 1..Len(tick'.alerts) :
             i # j => KindsOf(alerts', tick'.alerts)[i] # KindsOf(alerts', tick'.alerts)[j]
      ]_vars

\* a tick sampled all three kinds above their thresholds: CPU, emitted by
\* an earlier tick, was inside its cooldown and gave no alert, memory and
\* disk each gave one
C27_Witness ==
    /\ tick.pc = "idle"
    /\ tick.error = "none"
    /\ tick.sampled = <<951, 951, 951>>
    /\ KindsOf(alerts, tick.alerts) = <<MEMORY, DISK>>
    /\ CPU \in DOMAIN last_alert_time
    /\ now - last_alert_time[CPU] < cooldown_seconds

\* ----------------------------------------------------------------- C30
\* C30: no alert is sent twice to a chat: a tick sends only the alerts it
\* emitted itself, each a new Alert object, and each at most once to a
\* chat, whatever the outcome.  A send that fails changes neither the
\* active list nor any last-emission time.  And a tick emits an alert of a
\* kind only when every earlier alert of that kind is at least the cooldown
\* older, whether or not anybody received it.
C30_DeliveredAtMostOnceNoRetry ==
    [][/\ \A s1, s2 \in sends' :
             (s1[1] = s2[1] /\ s1[2] = s2[2]) => s1 = s2
       /\ \A s \in sends' : s[1] \in Refs(tick'.alerts)
       /\ tick'.alerts # tick.alerts
             => \/ tick'.alerts = <<>>
                \/ /\ tick'.alerts = Append(tick.alerts, Len(alerts) + 1)
                   /\ Len(alerts') = Len(alerts) + 1
                   /\ \A r \in 1..Len(alerts) :
                         alerts[r].alert_type = alerts'[Len(alerts')].alert_type
                           => alerts'[Len(alerts')].timestamp - alerts[r].timestamp
                                 >= cooldown_seconds
       /\ (\E s \in sends' \ sends : s[3] = "failed")
             => UNCHANGED <<active_alerts, last_alert_time, alerts>>
      ]_vars

\* a tick emitted one alert, the sends to both chats failed, and the tick
\* ended: the alert is in the active list and its kind's last-emission time
\* is set
C30_Witness ==
    /\ tick.pc = "idle"
    /\ tick.error = "none"
    /\ Len(tick.alerts) = 1
    /\ chat_ids = {1, 2}
    /\ sends = {<<tick.alerts[1], 1, "failed">>, <<tick.alerts[1], 2, "failed">>}
    /\ tick.alerts[1] \in Refs(active_alerts)
    /\ alerts[tick.alerts[1]].alert_type \in DOMAIN last_alert_time
    /\ last_alert_time[alerts[tick.alerts[1]].alert_type]
          >= alerts[tick.alerts[1]].timestamp

\* ----------------------------------------------------------------- C28
\* the alerts a suspended cycle emitted
SuspendedAlerts == IF cmd.pc = "send" THEN Refs(cmd.cycle.alerts) ELSE {}

\* C28: with a cycle suspended in a send and another one running, any two
\* alerts of one kind are stamped at least the cooldown apart, so are any
\* two alerts of one kind sent to the same chat; and the running cycle's
\* check of a kind of which the suspended cycle emitted an alert less than
\* the cooldown ago gives no alert.
C28_OverlappingCyclesShareCooldown ==
    [][/\ \A r1, r2 \in 1..Len(alerts') :
             (r1 < r2 /\ alerts'[r1].alert_type = alerts'[r2].alert_type)
                => alerts'[r2].timestamp - alerts'[r1].timestamp >= cooldown_seconds
       /\ \A s1, s2 \in sends' :
             (/\ s1[2] = s2[2]
              /\ s1[1] < s2[1]
              /\ alerts'[s1[1]].alert_type = alerts'[s2[1]].alert_type)
                => alerts'[s2[1]].timestamp - alerts'[s1[1]].timestamp
                      >= cooldown_seconds
       /\ \A k \in CheckedTypes :
             (/\ tick.pc = CheckPc(k)
              /\ tick'.pc # tick.pc
              /\ \E r \in SuspendedAlerts :
                    /\ alerts[r].alert_type = k
                    /\ now - alerts[r].timestamp < cooldown_seconds)
                => /\ tick'.alerts = tick.alerts
                   /\ UNCHANGED <<alerts, last_alert_time, active_alerts>>
      ]_vars

\* a cycle that emitted a CPU alert is suspended in a send; a second cycle
\* sampled CPU above the threshold inside the cooldown, emitted nothing and
\* has ended
C28_Witness ==
    /\ cmd.pc = "send"
    /\ \E r \in Refs(cmd.cycle.alerts) :
          /\ alerts[r].alert_type = CPU
          /\ now - alerts[r].timestamp < cooldown_seconds
    /\ tick.pc = "idle"
    /\ tick.error = "none"
    /\ Len(tick.sampled) = 3
    /\ tick.sampled[1] > Threshold(CPU)
    /\ tick.alerts = <<>>

\* ----------------------------------------------------------------- C22
\* what the chats received in the latest tick: <<severity, chat>> of the
\* sends that succeeded
Received == {<<alerts[s[1]].severity, s[2]>> : s \in {x \in sends : x[3] = "ok"}}

\* tick k of the run has ended normally, with chats A = 1 and B = 2
\* registered and no send failed
ScenarioTickDone(k) ==
    /\ DueTick = k
    /\ Ran
    /\ tick.pc = "idle"
    /\ tick.error = "none"
    /\ chat_ids = {1, 2}
    /\ \A s \in sends : s[3] = "ok"

ToBoth(severity) == {<<severity, 1>>, <<severity, 2>>}

\* C22 as stated: tick 1 (CPU 85) emits one alert that A and B receive,
\* tick 2 (CPU 90) and tick 3 (CPU 40) deliver nothing, tick 4 (CPU 96)
\* delivers one critical alert to A and B.
C22_ScenarioAsStated ==
    /\ ScenarioTickDone(1) => (Len(tick.alerts) = 1 /\ Received = ToBoth("warning"))
    /\ ScenarioTickDone(2) => (tick.alerts = <<>> /\ sends = {})
    /\ ScenarioTickDone(3) => (tick.alerts = <<>> /\ sends = {})
    /\ ScenarioTickDone(4) => (Len(tick.alerts) = 1 /\ Received = ToBoth("critical"))

\* C22 amended: tick 2, one tick interval after tick 1 and so after the
\* cooldown, emits one warning alert that A and B receive; ticks 1, 3 and 4
\* as stated.
C22_ScenarioTickTwoAlerts ==
    /\ ScenarioTickDone(1) => (Len(tick.alerts) = 1 /\ Received = ToBoth("warning"))
    /\ ScenarioTickDone(2)
          => /\ Len(tick.alerts) = 1
             /\ Received = ToBoth("warning")
             /\ alerts[tick.alerts[1]].timestamp - alerts[1].timestamp
                   >= cooldown_seconds
    /\ ScenarioTickDone(3) => (tick.alerts = <<>> /\ sends = {})
    /\ ScenarioTickDone(4) => (Len(tick.alerts) = 1 /\ Received = ToBoth("critical"))

\* the fourth tick has ended: its critical alert, the third alert of the
\* run, went to both chats
C22_Witness ==
    /\ ScenarioTickDone(4)
    /\ Len(alerts) = 3
    /\ alerts[2].metric_value = 900
    /\ Received = ToBoth("critical")

\* C23: an update without a user, or of a user whose id is not in the
\* allow-list, never enters a command handler body or a callback action, and
\* leaves the container engine and the rate-limit record as they were
C23_UnauthorizedRunsNothing ==
    [][(/\ handled'.kind \in {"command", "callback"}
        /\ (handled'.user = NoUser \/ handled'.user \notin allowed_user_ids))
           => /\ ~handled'.body
              /\ handled'.reply \in {"none", "denied"}
              /\ engine' = engine
              /\ rate_limit_storage' = rate_limit_storage]_vars

\* after the engine carried out some action, a request from outside the
\* allow-list to stop the running container, typed or pressed, was denied
C23_Witness ==
    /\ handled.user \notin allowed_user_ids
    /\ handled.reply = "denied"
    /\ \/ handled.kind = "command" /\ handled.data = <<"docker_stop", "web">>
       \/ handled.kind = "callback" /\ handled.data = <<"docker", "stop", "web">>
    /\ engine.status["web"] = "running"
    /\ engine.calls # {}

\* C24: every restart, stop or start the container engine has carried out
\* was preceded by a confirmation callback of an allowed user for that
\* action and that container
C24_ActionsConfirmedFirst == engine.calls \subseteq confirmations

\* C21: when a command or callback has failed with an exception while the
\* chat transport was up, its caller got an error reply carrying at most
\* MaxErrorText characters of the exception text, and no exception left the
\* handler chain
C21_FailureReplyTruncated ==
    (handled.kind \in {"command", "callback"} /\ handled.failed /\ handled.net = "up")
        => /\ handled.reply = "error"
           /\ handled.error_len <= MaxErrorText
           /\ ~handled.raised

\* the requests of the user that passed the limiter less than a period
\* before time t
AdmittedWithin(user, t) ==
    {i \in DOMAIN admissions[user] : t - admissions[user][i] < rate_limit_period}

\* C29 (window): for every user, at most rate_limit_calls requests have
\* passed the limiter within any rate_limit_period seconds
C29_AtMostCallsPerPeriod ==
    \A user \in UserIds, t \in 0..now :
        Cardinality({i \in DOMAIN admissions[user] :
                        /\ t <= admissions[user][i]
                        /\ admissions[user][i] < t + rate_limit_period})
            <= rate_limit_calls

\* C29: at most rate_limit_calls requests of a user pass within any period;
\* a request passes exactly when fewer than rate_limit_calls requests of the
\* same user passed less than a period before it, whatever was rejected
\* meanwhile and whatever other users did; a rejected request adds no
\* timestamp; and no request touches another user's record
C29_PerUserRateLimit ==
    [][/\ C29_AtMostCallsPerPeriod'
       /\ now' = now =>
            LET user == handled'.user
            IN /\ handled'.kind = "request"
               /\ handled'.body <=>
                      Cardinality(AdmittedWithin(user, now)) < rate_limit_calls
               /\ handled'.reply = IF handled'.body THEN "answer" ELSE "rate limited"
               /\ ~handled'.body =>
                      /\ admissions' = admissions
                      /\ Len(rate_limit_storage'[user]) <= Len(rate_limit_storage[user])
                      /\ \A i \in DOMAIN rate_limit_storage'[user] :
                             \E j \in DOMAIN rate_limit_storage[user] :
                                 rate_limit_storage'[user][i] = rate_limit_storage[user][j]
               /\ handled'.body =>
                      admissions' = [admissions EXCEPT ![user] = Append(@, now)]
               /\ \A other \in UserIds \ {user} :
                      rate_limit_storage'[other] = rate_limit_storage[other]]_vars

\* a user who had used up a period's calls was let through again after the
\* period and is now rejected once more, while another user has been served
C29_Witness ==
    /\ handled.kind = "request"
    /\ handled.reply = "rate limited"
    /\ Len(admissions[handled.user]) > rate_limit_calls
    /\ \E other \in UserIds \ {handled.user} : admissions[other] # <<>>
====
